---- MODULE Spec2Model ----
(***************************************************************************)
(* The command layer of the Synapse configurator (src-tauri/src).          *)
(*                                                                         *)
(* The handlers registered in main.rs are modelled as operators that build *)
(* the value each handler returns; an action per handler applies it to     *)
(* arguments drawn from small sets and records the call.                   *)
(*                                                                         *)
(* Encoding of Rust / serde values:                                        *)
(*   Option<T>       None is <<>>, Some(x) is <<x>>; serde_json turns None *)
(*                   into null and Some(x) into x, and the same 0/1-length  *)
(*                   sequence stands for that JSON value                    *)
(*   Vec<T>          a sequence                                            *)
(*   struct, json!{} a record with the same field names                    *)
(*   HashMap<K, V>   a function from the keys to the values                *)
(*   DateTime<Utc>   an instant of Time; its two textual forms are told    *)
(*                   apart (Serialize and to_rfc3339)                      *)
(*   f64 literal     the number of hundredths (25.5 is 2550)               *)
(***************************************************************************)
EXTENDS Integers, Sequences, FiniteSets, TLC

\* ------------------------------------------------------------------------
\* Bounds of the model
\* ------------------------------------------------------------------------

\* The longest sequence of calls that is explored.
MaxCalls == 2

\* Utc::now() returns an instant of 0..MaxTime.
MaxTime == 1

Time == 0..MaxTime

\* ------------------------------------------------------------------------
\* State
\* ------------------------------------------------------------------------

VARIABLES
    history,    \* the calls made so far, oldest first: [fn, args]
    result,     \* what the latest call returned; None before the first call
    fresh       \* what each command call returns, its timestamps aside, when
                \* it is the first call the application serves

vars == <<history, result, fresh>>

\* ------------------------------------------------------------------------
\* main.rs
\* ------------------------------------------------------------------------

PROTOCOL_VERSION == "1.0"

SPEC_VERSION == "3.1"

\* ------------------------------------------------------------------------
\* Option, Result and serde
\* ------------------------------------------------------------------------

None == <<>>

Some(x) == <<x>>

Ok(x) == [tag |-> "Ok", val |-> x]

Err(e) == [tag |-> "Err", val |-> e]

\* Result::unwrap() of a value that is Ok
unwrap(r) == r.val

\* impl Serialize for DateTime<Utc>: the RFC 3339 text with a Z suffix
to_value_DateTime(t) == [instant |-> t, offset |-> "Z"]

\* DateTime::to_rfc3339: the RFC 3339 text with a +00:00 suffix
to_rfc3339(t) == [instant |-> t, offset |-> "+00:00"]

\* Option<DateTime<Utc>> serialized
to_value_OptDateTime(o) ==
    IF o = None THEN None ELSE Some(to_value_DateTime(o[1]))

\* ------------------------------------------------------------------------
\* commands.rs: response wrappers
\* ------------------------------------------------------------------------

\* impl Deserialize for DateTime<Utc>: parses RFC 3339 text with any offset
\* notation for UTC
from_value_DateTime(j) ==
    IF DOMAIN j = {"instant", "offset"} /\ j.offset \in {"Z", "+00:00"}
    THEN Ok(j.instant)
    ELSE Err("invalid type: expected an RFC 3339 formatted date and time")

\* #[derive(Deserialize)] for SkillInfo: every field that is not an Option
\* must be present with its type; a missing or null Option field is None
from_value_SkillInfo(v) ==
    IF /\ {"id", "name", "version", "status", "trust_level", "risk_level",
           "isolation_type", "required_capabilities", "created_at"}
              \subseteq DOMAIN v
       /\ v.risk_level \in 0..255
       /\ from_value_DateTime(v.created_at).tag = "Ok"
       /\ ("last_used" \in DOMAIN v /\ v.last_used # None)
              => from_value_DateTime(v.last_used[1]).tag = "Ok"
    THEN Ok([id |-> v.id, name |-> v.name, version |-> v.version,
             status |-> v.status, trust_level |-> v.trust_level,
             risk_level |-> v.risk_level,
             isolation_type |-> v.isolation_type,
             required_capabilities |-> v.required_capabilities,
             created_at |-> unwrap(from_value_DateTime(v.created_at)),
             last_used |->
                IF "last_used" \in DOMAIN v /\ v.last_used # None
                THEN Some(unwrap(from_value_DateTime(v.last_used[1])))
                ELSE None])
    ELSE Err("missing field or invalid type")

\* serde_json::from_value::<Vec<SkillInfo>>
from_value_Vec_SkillInfo(j) ==
    IF \A i \in 1..Len(j) : from_value_SkillInfo(j[i]).tag = "Ok"
    THEN Ok([i \in 1..Len(j) |-> unwrap(from_value_SkillInfo(j[i]))])
    ELSE Err("missing field or invalid type")

\* BaseResponse::default with the two constants in each other's place
BaseResponse_default_swapped ==
    [protocol_version |-> SPEC_VERSION, spec_version |-> PROTOCOL_VERSION]

BaseResponse_default ==
    [protocol_version |-> PROTOCOL_VERSION, spec_version |-> SPEC_VERSION]

\* ApiResponse::success filling error with an empty message instead of None
ApiResponse_success_empty_error(data) ==
    [base |-> BaseResponse_default, success |-> TRUE,
     data |-> Some(data), error |-> Some("")]

ApiResponse_success(data) ==
    [base |-> BaseResponse_default, success |-> TRUE,
     data |-> Some(data), error |-> None]

ApiResponse_error(message) ==
    [base |-> BaseResponse_default, success |-> FALSE,
     data |-> None, error |-> Some(message)]

\* ------------------------------------------------------------------------
\* commands.rs: configuration commands
\* ------------------------------------------------------------------------

\* The SynapseConfig that get_config builds
get_config_config ==
    [language |-> "en",
     mode |-> "supervised",
     llm_providers |-> <<
        [name |-> "OpenAI GPT-4",
         provider_type |-> "openai",
         api_key |-> None,
         base_url |-> Some("https://api.openai.com/v1"),
         model |-> "gpt-4o",
         priority |-> 1,
         is_active |-> TRUE] >>,
     data_paths |-> [config |-> "~/.synapse/config",
                     skills |-> "~/.synapse/skills",
                     memory |-> "~/.synapse/memory"],
     security_settings |-> [require_approval_for_risk |-> 3,
                            isolation_policy |-> "container",
                            audit_enabled |-> TRUE,
                            trusted_users |-> <<>>]]

\* get_config over a store that save_config writes: the configuration
\* saved last, if any
get_config_persisted ==
    LET saved == {i \in 1..Len(history) : history[i].fn = "save_config"}
    IN  IF saved = {} THEN Ok(ApiResponse_success(get_config_config))
        ELSE LET latest == CHOOSE i \in saved : \A j \in saved : j <= i
             IN  Ok(ApiResponse_success(history[latest].args.config))

get_config == Ok(ApiResponse_success(get_config_config))

save_config(config) ==
    Ok(ApiResponse_success([saved |-> TRUE,
                            message |-> "Configuration saved successfully"]))

\* test_llm_connection that also wants a base_url before it reports a
\* connection
test_llm_connection_needs_url(provider_type, api_key, base_url, model) ==
    LET success == ~(api_key = "") /\ base_url # None
    IN  Ok(ApiResponse_success(
            [connected |-> success,
             provider |-> provider_type,
             model |-> model,
             message |-> IF success THEN "Connection successful"
                                    ELSE "Invalid API key"]))

test_llm_connection(provider_type, api_key, base_url, model) ==
    LET success == ~(api_key = "")
    IN  Ok(ApiResponse_success(
            [connected |-> success,
             provider |-> provider_type,
             model |-> model,
             message |-> IF success THEN "Connection successful"
                                    ELSE "Invalid API key"]))

\* ------------------------------------------------------------------------
\* commands.rs: skill management commands
\* ------------------------------------------------------------------------

\* Serialize for SkillInfo under #[serde(rename_all = "camelCase")]
to_value_SkillInfo_camelCase(s) ==
    [id |-> s.id, name |-> s.name, version |-> s.version, status |-> s.status,
     trustLevel |-> s.trust_level, riskLevel |-> s.risk_level,
     isolationType |-> s.isolation_type,
     requiredCapabilities |-> s.required_capabilities,
     createdAt |-> to_value_DateTime(s.created_at),
     lastUsed |-> to_value_OptDateTime(s.last_used)]

\* #[derive(Serialize)] for SkillInfo
to_value_SkillInfo(s) ==
    [id |-> s.id, name |-> s.name, version |-> s.version, status |-> s.status,
     trust_level |-> s.trust_level, risk_level |-> s.risk_level,
     isolation_type |-> s.isolation_type,
     required_capabilities |-> s.required_capabilities,
     created_at |-> to_value_DateTime(s.created_at),
     last_used |-> to_value_OptDateTime(s.last_used)]

\* The Vec<SkillInfo> that get_skills builds; now[i] is what the i-th
\* Utc::now() of the handler returns.
get_skills_skills(now) ==
    << [id |-> "skill-001",
        name |-> "read_file",
        version |-> "1.0.0",
        status |-> "active",
        trust_level |-> "trusted",
        risk_level |-> 1,
        isolation_type |-> "subprocess",
        required_capabilities |-> <<"fs:read">>,
        created_at |-> now[1],
        last_used |-> Some(now[2])],
       [id |-> "skill-002",
        name |-> "write_file",
        version |-> "1.0.0",
        status |-> "active",
        trust_level |-> "verified",
        risk_level |-> 2,
        isolation_type |-> "container",
        required_capabilities |-> <<"fs:write">>,
        created_at |-> now[3],
        last_used |-> Some(now[4])],
       [id |-> "skill-003",
        name |-> "web_search",
        version |-> "1.0.0",
        status |-> "pending",
        trust_level |-> "unverified",
        risk_level |-> 3,
        isolation_type |-> "container",
        required_capabilities |-> <<"network:http">>,
        created_at |-> now[5],
        last_used |-> None] >>

\* get_skills over a registry that the approval commands update: a skill is
\* active once approve_skill was called for it and archived once
\* archive_skill was
get_skills_lifecycle(now) ==
    LET skills == get_skills_skills(now)
        Called(fn, id) ==
            \E i \in 1..Len(history) :
                history[i].fn = fn /\ history[i].args.skill_id = id
        status(s) ==
            IF Called("archive_skill", s.id) THEN "archived"
            ELSE IF Called("approve_skill", s.id) THEN "active"
            ELSE IF Called("reject_skill", s.id) THEN "rejected"
            ELSE s.status
    IN  Ok(ApiResponse_success(
            [i \in 1..Len(skills) |->
                to_value_SkillInfo(
                    [skills[i] EXCEPT !.status = status(skills[i])])]))

get_skills(now) ==
    LET skills == get_skills_skills(now)
    IN  Ok(ApiResponse_success(
            [i \in 1..Len(skills) |-> to_value_SkillInfo(skills[i])]))

\* get_skill_details with the id hardcoded like the rest of its fields
get_skill_details_fixed_id(skill_id) ==
    Ok(ApiResponse_success(
        [id |-> "skill-001",
         name |-> "example_skill",
         version |-> "1.0.0",
         description |-> "Example skill for demonstration",
         author |-> "synapse_core",
         inputs |-> [query |-> [type |-> "string", required |-> TRUE]],
         outputs |-> [result |-> [type |-> "string"]],
         required_capabilities |-> <<"fs:read">>,
         risk_level |-> 2,
         trust_level |-> "verified",
         isolation_type |-> "container"]))

\* get_skill_details refusing an id that get_skills does not list
get_skill_details_listed_only(skill_id) ==
    IF skill_id \in {"skill-001", "skill-002", "skill-003"}
    THEN Ok(ApiResponse_success(
            [id |-> skill_id,
             name |-> "example_skill",
             version |-> "1.0.0",
             description |-> "Example skill for demonstration",
             author |-> "synapse_core",
             inputs |-> [query |-> [type |-> "string", required |-> TRUE]],
             outputs |-> [result |-> [type |-> "string"]],
             required_capabilities |-> <<"fs:read">>,
             risk_level |-> 2,
             trust_level |-> "verified",
             isolation_type |-> "container"]))
    ELSE Ok(ApiResponse_error("Skill not found"))

get_skill_details(skill_id) ==
    Ok(ApiResponse_success(
        [id |-> skill_id,
         name |-> "example_skill",
         version |-> "1.0.0",
         description |-> "Example skill for demonstration",
         author |-> "synapse_core",
         inputs |-> [query |-> [type |-> "string", required |-> TRUE]],
         outputs |-> [result |-> [type |-> "string"]],
         required_capabilities |-> <<"fs:read">>,
         risk_level |-> 2,
         trust_level |-> "verified",
         isolation_type |-> "container"]))

\* approve_skill granting the approval only to the holder of token cap-001
approve_skill_checked(skill_id, approved_by, now) ==
    Ok(ApiResponse_success(
        [skill_id |-> skill_id,
         approved |-> (approved_by = "admin"),
         approved_by |-> approved_by,
         approved_at |-> to_rfc3339(now[1])]))

approve_skill(skill_id, approved_by, now) ==
    Ok(ApiResponse_success(
        [skill_id |-> skill_id,
         approved |-> TRUE,
         approved_by |-> approved_by,
         approved_at |-> to_rfc3339(now[1])]))

reject_skill(skill_id, reason, now) ==
    Ok(ApiResponse_success(
        [skill_id |-> skill_id,
         rejected |-> TRUE,
         reason |-> reason,
         rejected_at |-> to_rfc3339(now[1])]))

archive_skill(skill_id, now) ==
    Ok(ApiResponse_success(
        [skill_id |-> skill_id,
         archived |-> TRUE,
         archived_at |-> to_rfc3339(now[1])]))

\* ------------------------------------------------------------------------
\* commands.rs: metrics commands
\* ------------------------------------------------------------------------

get_system_metrics ==
    LET metrics == [cpu_percent |-> 2550,
                    memory_percent |-> 4520,
                    memory_used_mb |-> 1843,
                    memory_total_mb |-> 4096,
                    disk_percent |-> 3500,
                    uptime_seconds |-> 86400]
    IN  Ok(ApiResponse_success(metrics))

\* get_llm_usage with a provider_distribution that leaves tokens out
get_llm_usage_partial_distribution ==
    LET provider_dist == [openai |-> 75000, anthropic |-> 20000]
        metrics == [total_tokens |-> 100000,
                    prompt_tokens |-> 60000,
                    completion_tokens |-> 40000,
                    estimated_cost_usd |-> 125,
                    provider_distribution |-> provider_dist]
    IN  Ok(ApiResponse_success(metrics))

get_llm_usage ==
    LET provider_dist == [openai |-> 75000, anthropic |-> 25000]
        metrics == [total_tokens |-> 100000,
                    prompt_tokens |-> 60000,
                    completion_tokens |-> 40000,
                    estimated_cost_usd |-> 125,
                    provider_distribution |-> provider_dist]
    IN  Ok(ApiResponse_success(metrics))

\* The Vec<SkillMetrics> that get_skill_metrics builds
get_skill_metrics_metrics ==
    << [skill_name |-> "read_file",
        total_executions |-> 150,
        successful_executions |-> 148,
        failed_executions |-> 2,
        avg_latency_ms |-> 4550,
        success_rate |-> 9867],
       [skill_name |-> "write_file",
        total_executions |-> 75,
        successful_executions |-> 73,
        failed_executions |-> 2,
        avg_latency_ms |-> 6230,
        success_rate |-> 9733] >>

\* metrics.into_iter().filter(|m| m.skill_name == name).collect()
RECURSIVE filter_skill_name(_, _)
filter_skill_name(metrics, name) ==
    IF metrics = <<>> THEN <<>>
    ELSE IF Head(metrics).skill_name = name
         THEN <<Head(metrics)>> \o filter_skill_name(Tail(metrics), name)
         ELSE filter_skill_name(Tail(metrics), name)

\* get_skill_metrics ignoring its filter, as the other stubs ignore theirs
get_skill_metrics_unfiltered(skill_name) ==
    Ok(ApiResponse_success(get_skill_metrics_metrics))

get_skill_metrics(skill_name) ==
    LET metrics == get_skill_metrics_metrics
    IN  IF skill_name # None
        THEN LET name == skill_name[1]
                 filtered == filter_skill_name(metrics, name)
             IN  Ok(ApiResponse_success(filtered))
        ELSE Ok(ApiResponse_success(metrics))

\* ------------------------------------------------------------------------
\* commands.rs: security commands
\* ------------------------------------------------------------------------

\* #[derive(Serialize)] for CapabilityInfo
to_value_CapabilityInfo(c) ==
    [token_id |-> c.token_id, user_id |-> c.user_id,
     capabilities |-> c.capabilities,
     issued_at |-> to_value_DateTime(c.issued_at),
     expires_at |-> to_value_OptDateTime(c.expires_at),
     is_valid |-> c.is_valid]

\* #[derive(Serialize)] for AuditLogEntry
to_value_AuditLogEntry(e) ==
    [id |-> e.id, timestamp |-> to_value_DateTime(e.timestamp),
     action |-> e.action, user_id |-> e.user_id, result |-> e.result,
     details |-> e.details]

\* get_capabilities issuing a token that cannot write files
get_capabilities_read_only(user_id, now) ==
    LET capabilities ==
            << [token_id |-> "cap-001",
                user_id |-> "admin",
                capabilities |-> <<"fs:read", "network:http">>,
                issued_at |-> now[1],
                expires_at |-> None,
                is_valid |-> TRUE] >>
    IN  Ok(ApiResponse_success(
            [i \in 1..Len(capabilities) |->
                to_value_CapabilityInfo(capabilities[i])]))

get_capabilities(user_id, now) ==
    LET capabilities ==
            << [token_id |-> "cap-001",
                user_id |-> "admin",
                capabilities |-> <<"fs:read", "fs:write", "network:http">>,
                issued_at |-> now[1],
                expires_at |-> None,
                is_valid |-> TRUE] >>
    IN  Ok(ApiResponse_success(
            [i \in 1..Len(capabilities) |->
                to_value_CapabilityInfo(capabilities[i])]))

\* get_audit_log honouring limit: at most limit entries
get_audit_log_limited(limit, action_filter, user_filter, now) ==
    LET entries ==
            << [id |-> "audit-001",
                timestamp |-> now[1],
                action |-> "skill_execute",
                user_id |-> "admin",
                result |-> "success",
                details |-> Some("Executed read_file skill")],
               [id |-> "audit-002",
                timestamp |-> now[2],
                action |-> "config_update",
                user_id |-> "admin",
                result |-> "success",
                details |-> Some("Updated LLM provider settings")] >>
        n == IF limit = None \/ limit[1] > Len(entries)
             THEN Len(entries) ELSE limit[1]
    IN  Ok(ApiResponse_success(
            [i \in 1..n |-> to_value_AuditLogEntry(entries[i])]))

get_audit_log(limit, action_filter, user_filter, now) ==
    LET entries ==
            << [id |-> "audit-001",
                timestamp |-> now[1],
                action |-> "skill_execute",
                user_id |-> "admin",
                result |-> "success",
                details |-> Some("Executed read_file skill")],
               [id |-> "audit-002",
                timestamp |-> now[2],
                action |-> "config_update",
                user_id |-> "admin",
                result |-> "success",
                details |-> Some("Updated LLM provider settings")] >>
    IN  Ok(ApiResponse_success(
            [i \in 1..Len(entries) |-> to_value_AuditLogEntry(entries[i])]))

\* get_security_settings had update_security_settings stored what it is given
get_security_settings_persisted ==
    LET saved == {i \in 1..Len(history) :
                    history[i].fn = "update_security_settings"}
        latest == CHOOSE i \in saved : \A j \in saved : j <= i
        s == IF saved = {}
             THEN [require_approval_for_risk |-> 3,
                   isolation_policy |-> "container",
                   audit_enabled |-> TRUE,
                   trusted_users |-> <<>>]
             ELSE history[latest].args.settings
    IN  Ok(ApiResponse_success(
            [require_approval_for_risk |-> s.require_approval_for_risk,
             isolation_policy |-> s.isolation_policy,
             audit_enabled |-> s.audit_enabled,
             trusted_users |-> s.trusted_users,
             rate_limit_per_minute |-> 60,
             session_timeout_minutes |-> 30]))

get_security_settings ==
    Ok(ApiResponse_success(
        [require_approval_for_risk |-> 3,
         isolation_policy |-> "container",
         audit_enabled |-> TRUE,
         trusted_users |-> <<>>,
         rate_limit_per_minute |-> 60,
         session_timeout_minutes |-> 30]))

update_security_settings(settings) ==
    Ok(ApiResponse_success([updated |-> TRUE, settings |-> settings]))

\* ------------------------------------------------------------------------
\* skills.rs
\* ------------------------------------------------------------------------

SKILLS_PROTOCOL_VERSION == "1.0"

get_all_skills ==
    << [id |-> "skill-001",
        name |-> "read_file",
        version |-> "1.0.0",
        status |-> "active",
        trust_level |-> "trusted",
        risk_level |-> 1,
        isolation_type |-> "subprocess",
        required_capabilities |-> <<"fs:read">>,
        created_at |-> "2026-02-20T00:00:00Z",
        last_used |-> Some("2026-02-20T12:00:00Z"),
        protocol_version |-> SKILLS_PROTOCOL_VERSION],
       [id |-> "skill-002",
        name |-> "write_file",
        version |-> "1.0.0",
        status |-> "active",
        trust_level |-> "verified",
        risk_level |-> 2,
        isolation_type |-> "container",
        required_capabilities |-> <<"fs:write">>,
        created_at |-> "2026-02-20T00:00:00Z",
        last_used |-> None,
        protocol_version |-> SKILLS_PROTOCOL_VERSION] >>

\* Iterator::find: the first element whose id is id
RECURSIVE find_id(_, _)
find_id(skills, id) ==
    IF skills = <<>> THEN None
    ELSE IF Head(skills).id = id THEN Some(Head(skills))
         ELSE find_id(Tail(skills), id)

\* get_skill_by_id taking the first skill, with next() in place of find()
get_skill_by_id_next(id) ==
    IF get_all_skills = <<>> THEN None ELSE Some(Head(get_all_skills))

get_skill_by_id(id) == find_id(get_all_skills, id)

skills_approve_skill(id, approved_by) == TRUE

skills_reject_skill(id, reason) == TRUE

skills_archive_skill(id) == TRUE

\* ------------------------------------------------------------------------
\* security.rs
\* ------------------------------------------------------------------------

SECURITY_PROTOCOL_VERSION == "1.0"

\* security::get_security_settings with a threshold of its own
security_get_security_settings_own_threshold ==
    [require_approval_for_risk |-> 2,
     isolation_policy |-> "container",
     audit_enabled |-> TRUE,
     trusted_users |-> <<>>,
     protocol_version |-> SECURITY_PROTOCOL_VERSION]

security_get_security_settings ==
    [require_approval_for_risk |-> 3,
     isolation_policy |-> "container",
     audit_enabled |-> TRUE,
     trusted_users |-> <<>>,
     protocol_version |-> SECURITY_PROTOCOL_VERSION]

security_update_security_settings(settings) == TRUE

get_capability_tokens(user_id) ==
    << [id |-> "cap-001",
        user_id |-> "user-001",
        capability |-> "fs:read",
        granted_at |-> "2026-02-20T00:00:00Z",
        expires_at |-> None,
        protocol_version |-> SECURITY_PROTOCOL_VERSION] >>

security_get_audit_log(start_time, end_time, user_id) ==
    << [id |-> "audit-001",
        timestamp |-> "2026-02-20T12:00:00Z",
        action |-> "skill_execution",
        user_id |-> "user-001",
        details |-> [skill_id |-> "skill-001", status |-> "success"],
        protocol_version |-> SECURITY_PROTOCOL_VERSION] >>

\* ------------------------------------------------------------------------
\* metrics.rs
\* ------------------------------------------------------------------------

\* The module's own constant left behind by a bump of the crate's: the
\* modules repeat the literal instead of using PROTOCOL_VERSION
METRICS_PROTOCOL_VERSION_stale == "0.9"

METRICS_PROTOCOL_VERSION == "1.0"

\* sys is what sysinfo reports after refresh_all: cpu_usage in hundredths of
\* a percent, total_memory and used_memory in bytes, uptime in seconds.
\* memory_percent is the f32 of used / total * 100, held as the two numbers
\* it is computed from.
metrics_get_system_metrics(sys) ==
    LET cpu_percent == sys.cpu_usage
        total_memory == sys.total_memory
        used_memory == sys.used_memory
        memory_percent == [percent_of |-> used_memory, over |-> total_memory]
    IN  [cpu_percent |-> cpu_percent,
         memory_percent |-> memory_percent,
         memory_used_mb |-> (used_memory \div 1024) \div 1024,
         memory_total_mb |-> (total_memory \div 1024) \div 1024,
         disk_percent |-> 3500,
         uptime_seconds |-> sys.uptime,
         protocol_version |-> METRICS_PROTOCOL_VERSION]

get_llm_usage_stats ==
    [total_tokens |-> 100000,
     prompt_tokens |-> 60000,
     completion_tokens |-> 40000,
     estimated_cost_usd |-> 125,
     protocol_version |-> METRICS_PROTOCOL_VERSION]

get_skill_execution_metrics(skill_id) ==
    << [skill_id |-> "skill-001",
        execution_count |-> 100,
        success_count |-> 95,
        failure_count |-> 5,
        average_latency_ms |-> 4550,
        protocol_version |-> METRICS_PROTOCOL_VERSION] >>

\* ------------------------------------------------------------------------
\* wizard.rs
\* ------------------------------------------------------------------------

WIZARD_PROTOCOL_VERSION == "1.0"

get_wizard_steps ==
    << [id |-> "welcome",
        title |-> "Welcome",
        description |-> "Welcome to Synapse Configurator",
        is_complete |-> FALSE,
        protocol_version |-> WIZARD_PROTOCOL_VERSION],
       [id |-> "language",
        title |-> "Language Selection",
        description |-> "Choose your preferred language",
        is_complete |-> FALSE,
        protocol_version |-> WIZARD_PROTOCOL_VERSION],
       [id |-> "llm",
        title |-> "LLM Provider",
        description |-> "Configure your LLM provider",
        is_complete |-> FALSE,
        protocol_version |-> WIZARD_PROTOCOL_VERSION],
       [id |-> "storage",
        title |-> "Storage Paths",
        description |-> "Configure data storage locations",
        is_complete |-> FALSE,
        protocol_version |-> WIZARD_PROTOCOL_VERSION],
       [id |-> "security",
        title |-> "Security Mode",
        description |-> "Configure security settings",
        is_complete |-> FALSE,
        protocol_version |-> WIZARD_PROTOCOL_VERSION],
       [id |-> "review",
        title |-> "Review",
        description |-> "Review and apply configuration",
        is_complete |-> FALSE,
        protocol_version |-> WIZARD_PROTOCOL_VERSION] >>

get_supported_languages ==
    << [code |-> "en",
        name |-> "English",
        protocol_version |-> WIZARD_PROTOCOL_VERSION],
       [code |-> "ru",
        name |-> "Russkij",            \* the Cyrillic name, transliterated
        protocol_version |-> WIZARD_PROTOCOL_VERSION] >>

get_supported_llm_providers ==
    << [id |-> "openai",
        name |-> "OpenAI",
        models |-> "gpt-4o,gpt-4-turbo,gpt-3.5-turbo",
        protocol_version |-> WIZARD_PROTOCOL_VERSION],
       [id |-> "anthropic",
        name |-> "Anthropic",
        models |-> "claude-3.5-sonnet,claude-3-opus",
        protocol_version |-> WIZARD_PROTOCOL_VERSION],
       [id |-> "ollama",
        name |-> "Ollama (Local)",
        models |-> "llama3,mistral,codellama",
        protocol_version |-> WIZARD_PROTOCOL_VERSION] >>

\* ------------------------------------------------------------------------
\* Calls
\* ------------------------------------------------------------------------

NoArgs == <<>>

\* A call can be made while fewer than MaxCalls were.  Every action below is
\* one call of a function: it appends the call to history, sets result to
\* what the function returns and, as the function does, touches nothing
\* else.
CanCall == Len(history) < MaxCalls

\* ------------------------------------------------------------------------
\* Arguments
\* ------------------------------------------------------------------------

\* A SynapseConfig other than the one get_config reports
OtherConfig ==
    [language |-> "ru",
     mode |-> "autonomous",
     llm_providers |-> <<>>,
     data_paths |-> [config |-> "/tmp/synapse"],
     security_settings |-> [require_approval_for_risk |-> 1,
                            isolation_policy |-> "none",
                            audit_enabled |-> FALSE,
                            trusted_users |-> <<"guest">>]]

Configs == {get_config_config, OtherConfig}

ProviderTypes == {"openai", "ollama"}

ApiKeys == {"", "sk-test"}

BaseUrls == {None, Some("http://localhost:11434")}

Models == {"gpt-4o", ""}

\* skill-001 is active and skill-003 pending in get_skills; skill-999 and
\* the empty string name no skill.
SkillIds == {"skill-001", "skill-003", "skill-999", ""}

\* admin holds the token of get_capabilities, guest holds none
UserIds == {"admin", "guest"}

Reasons == {"", "too risky"}

SkillNames == {None, Some("read_file"), Some("write_file"), Some("web_search")}

OptUserIds == {None, Some("admin"), Some("guest")}

Limits == {None, Some(0), Some(1)}

ActionFilters == {None, Some("config_update")}

UserFilters == {None, Some("guest")}

\* A SecuritySettings other than the one get_security_settings reports
OtherSettings ==
    [require_approval_for_risk |-> 1,
     isolation_policy |-> "none",
     audit_enabled |-> FALSE,
     trusted_users |-> <<"guest">>]

SettingsValues == {get_config_config.security_settings, OtherSettings}

\* The ids given to skills::get_skill_by_id: skill-001 and skill-002 are in
\* get_all_skills, skill-003 only in the get_skills command
ModuleSkillIds == SkillIds \cup {"skill-002"}

\* Arguments of the ApiResponse constructors
Messages == {"", "Skill not found"}

JsonValues == {[saved |-> TRUE], <<>>}

\* Arguments of the security and metrics module functions
OptTimes == {None, Some("2026-02-20T00:00:00Z")}

OptModuleUserIds == {None, Some("user-002")}

OptSkillIds == {None, Some("skill-999")}

\* Two readings of sysinfo
SysReadings ==
    { [cpu_usage |-> 0, total_memory |-> 0, used_memory |-> 0, uptime |-> 0],
      [cpu_usage |-> 1250, total_memory |-> 1073741824,
       used_memory |-> 402653184, uptime |-> 86400] }

\* The instants returned by the n calls of Utc::now() in one handler
Clock(n) == [1..n -> Time]

\* ------------------------------------------------------------------------
\* The application at start
\* ------------------------------------------------------------------------

\* Every invocation the frontend can send: a command of generate_handler!
\* and its arguments
CommandCalls ==
    {[fn |-> "get_config", args |-> NoArgs],
     [fn |-> "get_skills", args |-> NoArgs],
     [fn |-> "get_system_metrics", args |-> NoArgs],
     [fn |-> "get_llm_usage", args |-> NoArgs],
     [fn |-> "get_security_settings", args |-> NoArgs]}
    \cup {[fn |-> "save_config", args |-> [config |-> config]] :
            config \in Configs}
    \cup {[fn |-> "test_llm_connection", args |-> a] :
            a \in [provider_type : ProviderTypes, api_key : ApiKeys,
                   base_url : BaseUrls, model : Models]}
    \cup {[fn |-> "get_skill_details", args |-> a] :
            a \in [skill_id : SkillIds]}
    \cup {[fn |-> "approve_skill", args |-> a] :
            a \in [skill_id : SkillIds, approved_by : UserIds]}
    \cup {[fn |-> "reject_skill", args |-> a] :
            a \in [skill_id : SkillIds, reason : Reasons]}
    \cup {[fn |-> "archive_skill", args |-> a] :
            a \in [skill_id : SkillIds]}
    \cup {[fn |-> "get_skill_metrics", args |-> a] :
            a \in [skill_name : SkillNames]}
    \cup {[fn |-> "get_capabilities", args |-> a] :
            a \in [user_id : OptUserIds]}
    \cup {[fn |-> "get_audit_log", args |-> a] :
            a \in [limit : Limits, action_filter : ActionFilters,
                   user_filter : UserFilters]}
    \cup {[fn |-> "update_security_settings", args |-> a] :
            a \in [settings : SettingsValues]}

\* invoke_handler: the command named by the invocation c, run on its
\* arguments; now[i] is what its i-th Utc::now() returns.
invoke_handler(c, now) ==
    CASE c.fn = "get_config" -> get_config
      [] c.fn = "save_config" -> save_config(c.args.config)
      [] c.fn = "test_llm_connection" ->
            test_llm_connection(c.args.provider_type, c.args.api_key,
                                c.args.base_url, c.args.model)
      [] c.fn = "get_skills" -> get_skills(now)
      [] c.fn = "get_skill_details" -> get_skill_details(c.args.skill_id)
      [] c.fn = "approve_skill" ->
            approve_skill(c.args.skill_id, c.args.approved_by, now)
      [] c.fn = "reject_skill" ->
            reject_skill(c.args.skill_id, c.args.reason, now)
      [] c.fn = "archive_skill" -> archive_skill(c.args.skill_id, now)
      [] c.fn = "get_system_metrics" -> get_system_metrics
      [] c.fn = "get_llm_usage" -> get_llm_usage
      [] c.fn = "get_skill_metrics" -> get_skill_metrics(c.args.skill_name)
      [] c.fn = "get_capabilities" -> get_capabilities(c.args.user_id, now)
      [] c.fn = "get_audit_log" ->
            get_audit_log(c.args.limit, c.args.action_filter,
                          c.args.user_filter, now)
      [] c.fn = "get_security_settings" -> get_security_settings
      [] c.fn = "update_security_settings" ->
            update_security_settings(c.args.settings)

\* What stands in for a value read from the clock
Blank == "Utc::now()"

\* The return value r of command fn with every field that the handler fills
\* from Utc::now() blanked; whether an Option<DateTime> is Some is kept.
\* An Err and a response without data hold no such field.
without_timestamps(fn, r) ==
    IF r.tag # "Ok" \/ unwrap(r).data = None THEN r ELSE
    LET d == unwrap(r).data[1]
        blanked ==
            CASE fn = "get_skills" ->
                    [i \in 1..Len(d) |->
                        [d[i] EXCEPT
                            !.created_at = Blank,
                            !.last_used =
                                IF @ = None THEN None ELSE Some(Blank)]]
              [] fn = "approve_skill" -> [d EXCEPT !.approved_at = Blank]
              [] fn = "reject_skill" -> [d EXCEPT !.rejected_at = Blank]
              [] fn = "archive_skill" -> [d EXCEPT !.archived_at = Blank]
              [] fn = "get_capabilities" ->
                    [i \in 1..Len(d) |-> [d[i] EXCEPT !.issued_at = Blank]]
              [] fn = "get_audit_log" ->
                    [i \in 1..Len(d) |-> [d[i] EXCEPT !.timestamp = Blank]]
              [] OTHER -> d
    IN  Ok([unwrap(r) EXCEPT !.data = Some(blanked)])

\* The clock of a handler that reads the instant 0 every time
Epoch == [i \in 1..5 |-> 0]

\* No call was made.  fresh is the table of what each invocation returns
\* when it is the first one served.
Init ==
    /\ history = <<>>
    /\ result = None
    /\ fresh = [c \in CommandCalls |->
                    without_timestamps(c.fn, invoke_handler(c, Epoch))]

\* ------------------------------------------------------------------------
\* Actions: the commands registered with invoke_handler
\* ------------------------------------------------------------------------

invoke_get_config ==
    /\ CanCall
    /\ history' = Append(history, [fn |-> "get_config", args |-> NoArgs])
    /\ result' = Some(get_config)
    /\ UNCHANGED fresh

invoke_save_config ==
    \E config \in Configs :
        /\ CanCall
        /\ history' = Append(history,
              [fn |-> "save_config",
               args |-> [config |-> config]])
        /\ result' = Some(save_config(config))
        /\ UNCHANGED fresh

invoke_test_llm_connection ==
    \E provider_type \in ProviderTypes, api_key \in ApiKeys,
       base_url \in BaseUrls, model \in Models :
        /\ CanCall
        /\ history' = Append(history,
              [fn |-> "test_llm_connection",
               args |-> [provider_type |-> provider_type,
                         api_key |-> api_key,
                         base_url |-> base_url,
                         model |-> model]])
        /\ result' =
              Some(test_llm_connection(provider_type, api_key, base_url, model))
        /\ UNCHANGED fresh

invoke_get_skills ==
    \E now \in Clock(5) :
        /\ CanCall
        /\ history' = Append(history, [fn |-> "get_skills", args |-> NoArgs])
        /\ result' = Some(get_skills(now))
        /\ UNCHANGED fresh

invoke_get_skill_details ==
    \E skill_id \in SkillIds :
        /\ CanCall
        /\ history' = Append(history,
              [fn |-> "get_skill_details",
               args |-> [skill_id |-> skill_id]])
        /\ result' = Some(get_skill_details(skill_id))
        /\ UNCHANGED fresh

invoke_approve_skill ==
    \E skill_id \in SkillIds, approved_by \in UserIds, now \in Clock(1) :
        /\ CanCall
        /\ history' = Append(history,
              [fn |-> "approve_skill",
               args |-> [skill_id |-> skill_id, approved_by |-> approved_by]])
        /\ result' = Some(approve_skill(skill_id, approved_by, now))
        /\ UNCHANGED fresh

invoke_reject_skill ==
    \E skill_id \in SkillIds, reason \in Reasons, now \in Clock(1) :
        /\ CanCall
        /\ history' = Append(history,
              [fn |-> "reject_skill",
               args |-> [skill_id |-> skill_id, reason |-> reason]])
        /\ result' = Some(reject_skill(skill_id, reason, now))
        /\ UNCHANGED fresh

invoke_archive_skill ==
    \E skill_id \in SkillIds, now \in Clock(1) :
        /\ CanCall
        /\ history' = Append(history,
              [fn |-> "archive_skill",
               args |-> [skill_id |-> skill_id]])
        /\ result' = Some(archive_skill(skill_id, now))
        /\ UNCHANGED fresh

invoke_get_system_metrics ==
    /\ CanCall
    /\ history' = Append(history,
          [fn |-> "get_system_metrics",
           args |-> NoArgs])
    /\ result' = Some(get_system_metrics)
    /\ UNCHANGED fresh

invoke_get_llm_usage ==
    /\ CanCall
    /\ history' = Append(history, [fn |-> "get_llm_usage", args |-> NoArgs])
    /\ result' = Some(get_llm_usage)
    /\ UNCHANGED fresh

invoke_get_skill_metrics ==
    \E skill_name \in SkillNames :
        /\ CanCall
        /\ history' = Append(history,
              [fn |-> "get_skill_metrics",
               args |-> [skill_name |-> skill_name]])
        /\ result' = Some(get_skill_metrics(skill_name))
        /\ UNCHANGED fresh

invoke_get_capabilities ==
    \E user_id \in OptUserIds, now \in Clock(1) :
        /\ CanCall
        /\ history' = Append(history,
              [fn |-> "get_capabilities",
               args |-> [user_id |-> user_id]])
        /\ result' = Some(get_capabilities(user_id, now))
        /\ UNCHANGED fresh

invoke_get_audit_log ==
    \E limit \in Limits, action_filter \in ActionFilters,
       user_filter \in UserFilters, now \in Clock(2) :
        /\ CanCall
        /\ history' = Append(history,
              [fn |-> "get_audit_log",
               args |-> [limit |-> limit,
                         action_filter |-> action_filter,
                         user_filter |-> user_filter]])
        /\ result' =
              Some(get_audit_log(limit, action_filter, user_filter, now))
        /\ UNCHANGED fresh

invoke_get_security_settings ==
    /\ CanCall
    /\ history' = Append(history,
          [fn |-> "get_security_settings",
           args |-> NoArgs])
    /\ result' = Some(get_security_settings)
    /\ UNCHANGED fresh

invoke_update_security_settings ==
    \E settings \in SettingsValues :
        /\ CanCall
        /\ history' = Append(history,
              [fn |-> "update_security_settings",
               args |-> [settings |-> settings]])
        /\ result' = Some(update_security_settings(settings))
        /\ UNCHANGED fresh

\* ------------------------------------------------------------------------
\* Actions: the functions of the skills module
\* ------------------------------------------------------------------------

call_skills_get_all_skills ==
    /\ CanCall
    /\ history' = Append(history,
          [fn |-> "skills::get_all_skills",
           args |-> NoArgs])
    /\ result' = Some(get_all_skills)
    /\ UNCHANGED fresh

call_skills_get_skill_by_id ==
    \E id \in ModuleSkillIds :
        /\ CanCall
        /\ history' = Append(history,
              [fn |-> "skills::get_skill_by_id",
               args |-> [id |-> id]])
        /\ result' = Some(get_skill_by_id(id))
        /\ UNCHANGED fresh

call_skills_approve_skill ==
    \E id \in SkillIds, approved_by \in UserIds :
        /\ CanCall
        /\ history' = Append(history,
              [fn |-> "skills::approve_skill",
               args |-> [id |-> id, approved_by |-> approved_by]])
        /\ result' = Some(skills_approve_skill(id, approved_by))
        /\ UNCHANGED fresh

call_skills_reject_skill ==
    \E id \in SkillIds, reason \in Reasons :
        /\ CanCall
        /\ history' = Append(history,
              [fn |-> "skills::reject_skill",
               args |-> [id |-> id, reason |-> reason]])
        /\ result' = Some(skills_reject_skill(id, reason))
        /\ UNCHANGED fresh

call_skills_archive_skill ==
    \E id \in SkillIds :
        /\ CanCall
        /\ history' = Append(history,
              [fn |-> "skills::archive_skill",
               args |-> [id |-> id]])
        /\ result' = Some(skills_archive_skill(id))
        /\ UNCHANGED fresh

\* ------------------------------------------------------------------------
\* Actions: the functions of the security, metrics and wizard modules
\* ------------------------------------------------------------------------

call_security_get_security_settings ==
    /\ CanCall
    /\ history' = Append(history,
          [fn |-> "security::get_security_settings",
           args |-> NoArgs])
    /\ result' = Some(security_get_security_settings)
    /\ UNCHANGED fresh

call_security_update_security_settings ==
    \E settings \in SettingsValues :
        /\ CanCall
        /\ history' = Append(history,
              [fn |-> "security::update_security_settings",
               args |-> [settings |-> settings]])
        /\ result' = Some(security_update_security_settings(settings))
        /\ UNCHANGED fresh

call_security_get_capability_tokens ==
    \E user_id \in OptModuleUserIds :
        /\ CanCall
        /\ history' = Append(history,
              [fn |-> "security::get_capability_tokens",
               args |-> [user_id |-> user_id]])
        /\ result' = Some(get_capability_tokens(user_id))
        /\ UNCHANGED fresh

call_security_get_audit_log ==
    \E start_time \in OptTimes, end_time \in OptTimes, user_id \in OptModuleUserIds :
        /\ CanCall
        /\ history' = Append(history,
              [fn |-> "security::get_audit_log",
               args |-> [start_time |-> start_time, end_time |-> end_time, user_id |-> user_id]])
        /\ result' = Some(security_get_audit_log(start_time, end_time, user_id))
        /\ UNCHANGED fresh

call_metrics_get_system_metrics ==
    \E sys \in SysReadings :
        /\ CanCall
        /\ history' = Append(history,
              [fn |-> "metrics::get_system_metrics",
               args |-> NoArgs])
        /\ result' = Some(metrics_get_system_metrics(sys))
        /\ UNCHANGED fresh

call_metrics_get_llm_usage_stats ==
    /\ CanCall
    /\ history' = Append(history,
          [fn |-> "metrics::get_llm_usage_stats",
           args |-> NoArgs])
    /\ result' = Some(get_llm_usage_stats)
    /\ UNCHANGED fresh

call_metrics_get_skill_execution_metrics ==
    \E skill_id \in OptSkillIds :
        /\ CanCall
        /\ history' = Append(history,
              [fn |-> "metrics::get_skill_execution_metrics",
               args |-> [skill_id |-> skill_id]])
        /\ result' = Some(get_skill_execution_metrics(skill_id))
        /\ UNCHANGED fresh

call_wizard_get_wizard_steps ==
    /\ CanCall
    /\ history' = Append(history,
          [fn |-> "wizard::get_wizard_steps",
           args |-> NoArgs])
    /\ result' = Some(get_wizard_steps)
    /\ UNCHANGED fresh

call_wizard_get_supported_languages ==
    /\ CanCall
    /\ history' = Append(history,
          [fn |-> "wizard::get_supported_languages",
           args |-> NoArgs])
    /\ result' = Some(get_supported_languages)
    /\ UNCHANGED fresh

call_wizard_get_supported_llm_providers ==
    /\ CanCall
    /\ history' = Append(history,
          [fn |-> "wizard::get_supported_llm_providers",
           args |-> NoArgs])
    /\ result' = Some(get_supported_llm_providers)
    /\ UNCHANGED fresh

\* ------------------------------------------------------------------------
\* Actions: the constructors of ApiResponse
\* ------------------------------------------------------------------------

call_ApiResponse_success ==
    \E value \in JsonValues :
        /\ CanCall
        /\ history' = Append(history,
              [fn |-> "ApiResponse::success",
               args |-> [data |-> value]])
        /\ result' = Some(ApiResponse_success(value))
        /\ UNCHANGED fresh

call_ApiResponse_error ==
    \E message \in Messages :
        /\ CanCall
        /\ history' = Append(history,
              [fn |-> "ApiResponse::error",
               args |-> [message |-> message]])
        /\ result' = Some(ApiResponse_error(message))
        /\ UNCHANGED fresh

Next ==
    \/ invoke_get_config
    \/ invoke_save_config
    \/ invoke_test_llm_connection
    \/ invoke_get_skills
    \/ invoke_get_skill_details
    \/ invoke_approve_skill
    \/ invoke_reject_skill
    \/ invoke_archive_skill
    \/ invoke_get_system_metrics
    \/ invoke_get_llm_usage
    \/ invoke_get_skill_metrics
    \/ invoke_get_capabilities
    \/ invoke_get_audit_log
    \/ invoke_get_security_settings
    \/ invoke_update_security_settings
    \/ call_skills_get_all_skills
    \/ call_skills_get_skill_by_id
    \/ call_skills_approve_skill
    \/ call_skills_reject_skill
    \/ call_skills_archive_skill
    \/ call_security_get_security_settings
    \/ call_security_update_security_settings
    \/ call_security_get_capability_tokens
    \/ call_security_get_audit_log
    \/ call_metrics_get_system_metrics
    \/ call_metrics_get_llm_usage_stats
    \/ call_metrics_get_skill_execution_metrics
    \/ call_wizard_get_wizard_steps
    \/ call_wizard_get_supported_languages
    \/ call_wizard_get_supported_llm_providers
    \/ call_ApiResponse_success
    \/ call_ApiResponse_error

Spec == Init /\ [][Next]_vars

\* ------------------------------------------------------------------------
\* Reading the state
\* ------------------------------------------------------------------------

\* The commands of generate_handler!
Commands ==
    {"get_config", "save_config", "test_llm_connection",
     "get_skills", "get_skill_details", "approve_skill", "reject_skill",
     "archive_skill",
     "get_system_metrics", "get_llm_usage", "get_skill_metrics",
     "get_capabilities", "get_audit_log", "get_security_settings",
     "update_security_settings"}

\* The latest call, and whether it was a call of fn
last == history[Len(history)]

Returned(fn) == Len(history) > 0 /\ last.fn = fn

ReturnedCommand == Len(history) > 0 /\ last.fn \in Commands

\* What the latest call returned
ret == result[1]

\* The ApiResponse and its data, of a command that returned Ok
response == unwrap(ret)

data == response.data[1]

\* Whether a call of fn is among the calls before the latest one
Earlier(fn) == \E i \in 1..(Len(history) - 1) : history[i].fn = fn

\* ------------------------------------------------------------------------
\* C1
\* ------------------------------------------------------------------------

\* C1: whatever was called before, the ApiResponse that any of the 15
\* commands returns has base.protocol_version "1.0" and base.spec_version
\* "3.1".
C1_VersionStamp ==
    (ReturnedCommand /\ ret.tag = "Ok") =>
        /\ response.base.protocol_version = "1.0"
        /\ response.base.spec_version = "3.1"

\* A command returned a stamped response after an earlier call.
C1_Witness ==
    /\ Len(history) = 2
    /\ history[1].fn = "save_config"
    /\ Returned("update_security_settings")
    /\ ret.tag = "Ok"
    /\ response.base = [protocol_version |-> "1.0", spec_version |-> "3.1"]

\* ------------------------------------------------------------------------
\* C2
\* ------------------------------------------------------------------------

\* C2: every command returns Ok, never Err, with success = TRUE, for every
\* argument value.
C2_AlwaysOkSuccess ==
    ReturnedCommand => (ret.tag = "Ok" /\ response.success = TRUE)

\* Commands that were given an empty string, an absent option or an
\* identifier that names nothing have returned Ok with success.
C2_Witness ==
    /\ Len(history) = 2
    /\ history[1].fn = "test_llm_connection"
    /\ history[1].args.api_key = ""
    /\ history[1].args.base_url = None
    /\ Returned("get_skill_details")
    /\ last.args.skill_id = "skill-999"
    /\ ret.tag = "Ok"
    /\ response.success = TRUE

\* ------------------------------------------------------------------------
\* C3
\* ------------------------------------------------------------------------

\* The id and the status of each skill of a get_skills response
SkillStatuses(skills) ==
    [i \in 1..Len(skills) |-> <<skills[i].id, skills[i].status>>]

\* C3: whatever approve_skill, reject_skill and archive_skill calls came
\* before, get_skills returns skill-001 active, skill-002 active and
\* skill-003 pending.
C3_NoLifecycle ==
    Returned("get_skills") =>
        /\ ret.tag = "Ok"
        /\ SkillStatuses(data) = << <<"skill-001", "active">>,
                                    <<"skill-002", "active">>,
                                    <<"skill-003", "pending">> >>

\* get_skills returned skill-003 as pending right after
\* approve_skill("skill-003", u).
C3_Witness ==
    /\ Len(history) = 2
    /\ history[1].fn = "approve_skill"
    /\ history[1].args.skill_id = "skill-003"
    /\ Returned("get_skills")
    /\ data[3].id = "skill-003"
    /\ data[3].status = "pending"

\* ------------------------------------------------------------------------
\* C4
\* ------------------------------------------------------------------------

\* C4: approve_skill, reject_skill and archive_skill return success with
\* approved / rejected / archived = TRUE and echo skill_id and approved_by or
\* reason, for every argument; skills::approve_skill, skills::reject_skill
\* and skills::archive_skill return true for every id.
C4_UnconditionalApproval ==
    /\ Returned("approve_skill") =>
          /\ ret.tag = "Ok"
          /\ response.success = TRUE
          /\ data.approved = TRUE
          /\ data.skill_id = last.args.skill_id
          /\ data.approved_by = last.args.approved_by
    /\ Returned("reject_skill") =>
          /\ ret.tag = "Ok"
          /\ response.success = TRUE
          /\ data.rejected = TRUE
          /\ data.skill_id = last.args.skill_id
          /\ data.reason = last.args.reason
    /\ Returned("archive_skill") =>
          /\ ret.tag = "Ok"
          /\ response.success = TRUE
          /\ data.archived = TRUE
          /\ data.skill_id = last.args.skill_id
    /\ Returned("skills::approve_skill") => ret = TRUE
    /\ Returned("skills::reject_skill") => ret = TRUE
    /\ Returned("skills::archive_skill") => ret = TRUE

\* approve_skill approved a skill that get_skills does not list, for an
\* approver who is the user of no token of get_capabilities, after the same
\* skill had been archived.
C4_Witness ==
    /\ Len(history) = 2
    /\ history[1].fn = "archive_skill"
    /\ history[1].args.skill_id = "skill-999"
    /\ Returned("approve_skill")
    /\ last.args = [skill_id |-> "skill-999", approved_by |-> "guest"]
    /\ \A now \in Clock(1) :
          LET tokens == unwrap(get_capabilities(Some("guest"), now)).data[1]
          IN  \A i \in 1..Len(tokens) : tokens[i].user_id # "guest"
    /\ get_skill_by_id("skill-999") = None
    /\ data.approved = TRUE

\* ------------------------------------------------------------------------
\* C5
\* ------------------------------------------------------------------------

\* The ids of a sequence of skills
SkillIdsOf(skills) == [i \in 1..Len(skills) |-> skills[i].id]

\* C5: get_skills returns a successful response whose data is a non-empty
\* list that decodes as Vec<SkillInfo>, with the ids skill-001, skill-002,
\* skill-003 in that order.
C5_ThreeSkills ==
    Returned("get_skills") =>
        /\ ret.tag = "Ok"
        /\ response.success = TRUE
        /\ response.data # None
        /\ Len(data) > 0
        /\ from_value_Vec_SkillInfo(data).tag = "Ok"
        /\ SkillIdsOf(unwrap(from_value_Vec_SkillInfo(data)))
              = <<"skill-001", "skill-002", "skill-003">>

\* get_skills returned a list of three records that decodes, on a second
\* call.
C5_Witness ==
    /\ Len(history) = 2
    /\ history[1].fn = "get_skills"
    /\ Returned("get_skills")
    /\ from_value_Vec_SkillInfo(data).tag = "Ok"
    /\ Len(unwrap(from_value_Vec_SkillInfo(data))) = 3

\* ------------------------------------------------------------------------
\* C6
\* ------------------------------------------------------------------------

\* C6: test_llm_connection reports connected exactly when api_key is not
\* empty, with the message "Connection successful" or "Invalid API key";
\* it echoes provider_type and model; base_url makes no difference; and
\* success is TRUE with no error even when connected is FALSE.
C6_LlmConnection ==
    Returned("test_llm_connection") =>
        /\ ret.tag = "Ok"
        /\ response.success = TRUE
        /\ response.error = None
        /\ data.connected = (last.args.api_key # "")
        /\ data.message = (IF last.args.api_key # ""
                           THEN "Connection successful"
                           ELSE "Invalid API key")
        /\ data.provider = last.args.provider_type
        /\ data.model = last.args.model
        /\ \A base_url \in BaseUrls :
              ret = test_llm_connection(last.args.provider_type,
                                        last.args.api_key, base_url,
                                        last.args.model)

\* test_llm_connection, given an empty api_key and a base_url, reported
\* success with connected = FALSE.
C6_Witness ==
    /\ Returned("test_llm_connection")
    /\ last.args.api_key = ""
    /\ last.args.base_url # None
    /\ last.args.provider_type = "ollama"
    /\ response.success = TRUE
    /\ data.connected = FALSE
    /\ data.message = "Invalid API key"

\* ------------------------------------------------------------------------
\* C7
\* ------------------------------------------------------------------------

\* The four fields of a SecuritySettings
SettingsOf(s) ==
    [require_approval_for_risk |-> s.require_approval_for_risk,
     isolation_policy |-> s.isolation_policy,
     audit_enabled |-> s.audit_enabled,
     trusted_users |-> s.trusted_users]

\* The default security settings, as the claims state them
DefaultSettings ==
    [require_approval_for_risk |-> 3,
     isolation_policy |-> "container",
     audit_enabled |-> TRUE,
     trusted_users |-> <<>>]

\* C7: whatever was saved before, get_config returns the default
\* configuration (not a saved one that differs from it) and
\* get_security_settings the default settings (not updated ones that differ
\* from them); save_config reports saved = TRUE and update_security_settings
\* updated = TRUE.
C7_WritesNotPersisted ==
    /\ Returned("get_config") =>
          /\ ret.tag = "Ok"
          /\ data.language = "en"
          /\ data.mode = "supervised"
          /\ Len(data.llm_providers) = 1
          /\ data.llm_providers[1].provider_type = "openai"
          /\ data.security_settings = DefaultSettings
          /\ \A i \in 1..(Len(history) - 1) :
                (/\ history[i].fn = "save_config"
                 /\ history[i].args.config # get_config_config)
                    => data # history[i].args.config
    /\ Returned("get_security_settings") =>
          /\ ret.tag = "Ok"
          /\ SettingsOf(data) = DefaultSettings
          /\ \A i \in 1..(Len(history) - 1) :
                (/\ history[i].fn = "update_security_settings"
                 /\ history[i].args.settings # DefaultSettings)
                    => SettingsOf(data) # history[i].args.settings
    /\ Returned("save_config") =>
          (ret.tag = "Ok" /\ response.success = TRUE /\ data.saved = TRUE)
    /\ Returned("update_security_settings") =>
          (ret.tag = "Ok" /\ response.success = TRUE /\ data.updated = TRUE)

\* get_config returned the default configuration right after a save_config
\* of another configuration that had reported saved = TRUE.
C7_Witness ==
    /\ Len(history) = 2
    /\ history[1].fn = "save_config"
    /\ history[1].args.config.language = "ru"
    /\ Returned("get_config")
    /\ data.language = "en"
    /\ data # history[1].args.config

\* ------------------------------------------------------------------------
\* C8
\* ------------------------------------------------------------------------

\* The skill_name of each record
SkillNamesOf(metrics) == [i \in 1..Len(metrics) |-> metrics[i].skill_name]

\* C8: get_skill_metrics(None) returns the records of read_file and
\* write_file in that order; get_skill_metrics(Some(name)) returns the
\* sub-list of the records whose skill_name is name, in the same order, and
\* succeeds also when that list is empty.
C8_SkillMetricsFilter ==
    Returned("get_skill_metrics") =>
        /\ ret.tag = "Ok"
        /\ response.success = TRUE
        /\ last.args.skill_name = None =>
              /\ SkillNamesOf(data) = <<"read_file", "write_file">>
              /\ data = get_skill_metrics_metrics
        /\ last.args.skill_name # None =>
              data = SelectSeq(get_skill_metrics_metrics,
                               LAMBDA m : m.skill_name = last.args.skill_name[1])

\* get_skill_metrics returned success with an empty list for a name that
\* matches no record.
C8_Witness ==
    /\ Returned("get_skill_metrics")
    /\ last.args.skill_name = Some("web_search")
    /\ ret.tag = "Ok"
    /\ response.success = TRUE
    /\ data = <<>>

\* ------------------------------------------------------------------------
\* C9
\* ------------------------------------------------------------------------

\* C9: get_audit_log returns the entries audit-001 skill_execute and
\* audit-002 config_update, both of user admin, for every limit,
\* action_filter and user_filter; get_capabilities returns the one token
\* cap-001 of user admin for every user_id.
C9_FixedVectors ==
    /\ Returned("get_audit_log") =>
          /\ ret.tag = "Ok"
          /\ [i \in 1..Len(data) |->
                <<data[i].id, data[i].action, data[i].user_id>>]
                = << <<"audit-001", "skill_execute", "admin">>,
                     <<"audit-002", "config_update", "admin">> >>
    /\ Returned("get_capabilities") =>
          /\ ret.tag = "Ok"
          /\ [i \in 1..Len(data) |-> <<data[i].token_id, data[i].user_id>>]
                = << <<"cap-001", "admin">> >>

\* get_audit_log returned both entries for limit 0 and a user_filter that
\* is not admin, after get_capabilities had been asked for that user.
C9_Witness ==
    /\ Len(history) = 2
    /\ history[1].fn = "get_capabilities"
    /\ history[1].args.user_id = Some("guest")
    /\ Returned("get_audit_log")
    /\ last.args.limit = Some(0)
    /\ last.args.user_filter = Some("guest")
    /\ last.args.action_filter = Some("config_update")
    /\ Len(data) = 2

\* ------------------------------------------------------------------------
\* C10
\* ------------------------------------------------------------------------

\* C10: get_skill_details succeeds for every skill_id and returns that id
\* with the fixed name example_skill, risk_level 2, trust_level verified,
\* isolation_type container and required_capabilities [fs:read]; for
\* skill-001 and skill-003 its name, risk_level and trust_level differ from
\* what get_skills reports for the same id.
C10_SkillDetails ==
    Returned("get_skill_details") =>
        /\ ret.tag = "Ok"
        /\ response.success = TRUE
        /\ data.id = last.args.skill_id
        /\ data.name = "example_skill"
        /\ data.risk_level = 2
        /\ data.trust_level = "verified"
        /\ data.isolation_type = "container"
        /\ data.required_capabilities = <<"fs:read">>
        /\ \A now \in Clock(5) :
              LET skills == unwrap(get_skills(now)).data[1]
              IN  \A i \in 1..Len(skills) :
                    (/\ skills[i].id = last.args.skill_id
                     /\ skills[i].id \in {"skill-001", "skill-003"})
                        => /\ skills[i].name # data.name
                           /\ skills[i].risk_level # data.risk_level
                           /\ skills[i].trust_level # data.trust_level

\* get_skill_details returned example_skill for skill-003, after a call of
\* get_skills, and elsewhere for an id that get_skills does not list.
C10_Witness ==
    /\ Len(history) = 2
    /\ history[1].fn = "get_skills"
    /\ Returned("get_skill_details")
    /\ last.args.skill_id = "skill-003"
    /\ data.id = "skill-003"
    /\ data.name = "example_skill"

\* ------------------------------------------------------------------------
\* C11
\* ------------------------------------------------------------------------

\* The functions of the skills, security, metrics and wizard modules that
\* return a Vec of records, an Option of a record, and one record
ReturnsRecords ==
    {"skills::get_all_skills", "security::get_capability_tokens",
     "security::get_audit_log", "metrics::get_skill_execution_metrics",
     "wizard::get_wizard_steps", "wizard::get_supported_languages",
     "wizard::get_supported_llm_providers", "skills::get_skill_by_id"}

ReturnsRecord ==
    {"security::get_security_settings", "metrics::get_system_metrics",
     "metrics::get_llm_usage_stats"}

\* C11: every record returned by get_all_skills, get_skill_by_id,
\* get_security_settings, get_capability_tokens, get_audit_log,
\* get_system_metrics, get_llm_usage_stats, get_skill_execution_metrics,
\* get_wizard_steps, get_supported_languages and get_supported_llm_providers
\* has protocol_version "1.0", which is PROTOCOL_VERSION.
C11_ModuleVersionStamp ==
    /\ (Len(history) > 0 /\ last.fn \in ReturnsRecords) =>
          \A i \in 1..Len(ret) :
              /\ ret[i].protocol_version = "1.0"
              /\ ret[i].protocol_version = PROTOCOL_VERSION
    /\ (Len(history) > 0 /\ last.fn \in ReturnsRecord) =>
          /\ ret.protocol_version = "1.0"
          /\ ret.protocol_version = PROTOCOL_VERSION

\* metrics::get_skill_execution_metrics returned a stamped record after
\* skills::get_skill_by_id had found a skill.
C11_Witness ==
    /\ Len(history) = 2
    /\ history[1].fn = "skills::get_skill_by_id"
    /\ history[1].args.id = "skill-001"
    /\ Returned("metrics::get_skill_execution_metrics")
    /\ Len(ret) = 1
    /\ ret[1].protocol_version = "1.0"

\* ------------------------------------------------------------------------
\* C12
\* ------------------------------------------------------------------------

\* C12: skills::get_skill_by_id(id) returns Some(s) exactly when id is
\* skill-001 or skill-002, the ids of get_all_skills, and then s.id = id and
\* s is that skill of get_all_skills; for every other id it returns None.
C12_SkillById ==
    Returned("skills::get_skill_by_id") =>
        LET id == last.args.id
            listed == {i \in 1..Len(get_all_skills) : get_all_skills[i].id = id}
        IN  /\ (ret # None) <=> (id \in {"skill-001", "skill-002"})
            /\ (ret # None) <=> (listed # {})
            /\ ret # None =>
                  /\ ret[1].id = id
                  /\ \A i \in listed : get_all_skills[i] = ret[1]

\* get_skill_by_id found skill-002, and elsewhere returned None for
\* skill-003, which only the get_skills command lists.
C12_Witness ==
    /\ Len(history) = 2
    /\ history[1].fn = "skills::get_skill_by_id"
    /\ history[1].args.id = "skill-003"
    /\ Returned("skills::get_skill_by_id")
    /\ last.args.id = "skill-002"
    /\ ret # None
    /\ ret[1].name = "write_file"

\* ------------------------------------------------------------------------
\* C13
\* ------------------------------------------------------------------------

\* The ApiResponse that the latest call produced: the value of a
\* constructor, or what a command returned
IsApiResponse ==
    /\ Len(history) > 0
    /\ \/ last.fn \in {"ApiResponse::success", "ApiResponse::error"}
       \/ last.fn \in Commands /\ ret.tag = "Ok"

TheApiResponse == IF last.fn \in Commands THEN unwrap(ret) ELSE ret

\* C13: an ApiResponse has exactly one of data and error: success = TRUE
\* comes with data present and error absent (ApiResponse::success),
\* success = FALSE with data absent and error present (ApiResponse::error);
\* every command response has data present and error absent.
C13_DataXorError ==
    /\ IsApiResponse =>
          /\ TheApiResponse.success = TRUE =>
                (TheApiResponse.data # None /\ TheApiResponse.error = None)
          /\ TheApiResponse.success = FALSE =>
                (TheApiResponse.data = None /\ TheApiResponse.error # None)
    /\ Returned("ApiResponse::success") =>
          (ret.success = TRUE /\ ret.data = Some(last.args.data))
    /\ Returned("ApiResponse::error") =>
          (ret.success = FALSE /\ ret.error = Some(last.args.message))
    /\ ReturnedCommand =>
          /\ ret.tag = "Ok"
          /\ response.error = None
          /\ response.data # None

\* ApiResponse::error built a response with an error and no data, after a
\* command had returned one with data and no error.
C13_Witness ==
    /\ Len(history) = 2
    /\ history[1].fn = "get_skill_details"
    /\ Returned("ApiResponse::error")
    /\ last.args.message = "Skill not found"
    /\ ret.success = FALSE
    /\ ret.data = None
    /\ ret.error = Some("Skill not found")

\* ------------------------------------------------------------------------
\* C14
\* ------------------------------------------------------------------------

\* C14: what a command returns, the fields it fills from the clock aside, is
\* decided by the command and its arguments alone: whatever calls were
\* served before it, in whatever order, it returns what the same invocation
\* returns when it is the first one the application serves.
C14_ArgumentsOnly ==
    ReturnedCommand => without_timestamps(last.fn, ret) = fresh[last]

\* get_skills was served after skill-003 was approved, at an instant other
\* than the one the table was made at.
C14_Witness ==
    /\ Len(history) = 2
    /\ history[1].fn = "approve_skill"
    /\ history[1].args.skill_id = "skill-003"
    /\ last.fn = "get_skills"
    /\ data[1].created_at.instant # Epoch[1]

\* ------------------------------------------------------------------------
\* C15
\* ------------------------------------------------------------------------

\* C15: the security settings are the same wherever they are reported: the
\* security_settings inside the data of get_config, the data of the
\* get_security_settings command and the SecuritySettings that
\* security::get_security_settings returns all have
\* require_approval_for_risk 3, isolation_policy "container", audit_enabled
\* true and no trusted_users.
C15_SettingsAgree ==
    /\ Returned("get_config")
          => SettingsOf(data.security_settings) = DefaultSettings
    /\ Returned("get_security_settings")
          => SettingsOf(data) = DefaultSettings
    /\ Returned("security::get_security_settings")
          => SettingsOf(ret) = DefaultSettings

\* security::get_security_settings returned after get_config did
C15_Witness ==
    /\ Returned("security::get_security_settings")
    /\ Earlier("get_config")

\* ------------------------------------------------------------------------
\* C16
\* ------------------------------------------------------------------------

\* The elements of a Vec
Elements(v) == {v[i] : i \in 1..Len(v)}

\* The threshold that get_security_settings reports
Threshold == unwrap(get_security_settings).data[1].require_approval_for_risk

\* Whether the list skills of get_skills fits the threshold and the list
\* tokens of get_capabilities: a skill at or above the threshold is pending
\* and was never used; an active skill is below the threshold and requires
\* only capabilities of the one valid token.
Consistent(skills, tokens) ==
    LET valid == {i \in 1..Len(tokens) : tokens[i].is_valid}
    IN  \A i \in 1..Len(skills) :
            /\ skills[i].risk_level >= Threshold
                  => /\ skills[i].status = "pending"
                     /\ skills[i].last_used = None
            /\ skills[i].status = "active"
                  => /\ skills[i].risk_level < Threshold
                     /\ Cardinality(valid) = 1
                     /\ \A t \in valid :
                           Elements(skills[i].required_capabilities)
                              \subseteq Elements(tokens[t].capabilities)

\* C16: the list that get_skills returns is consistent with the approval
\* threshold 3 and with the token that get_capabilities returns, whoever
\* asks for the token and whenever: every skill of risk_level >= 3 is
\* "pending" with last_used absent, and every "active" skill has
\* risk_level < 3 and requires only capabilities held by the valid token.
C16_SkillsFitThreshold ==
    /\ Threshold = 3
    /\ Returned("get_skills")
          => \A user_id \in OptUserIds, now \in Clock(1) :
                Consistent(data,
                           unwrap(get_capabilities(user_id, now)).data[1])
    /\ Returned("get_capabilities")
          => \A now \in Clock(5) :
                Consistent(unwrap(get_skills(now)).data[1], data)

\* get_skills returned, after get_capabilities, a list with a skill at the
\* threshold and an active skill that requires a capability
C16_Witness ==
    /\ Returned("get_skills")
    /\ Earlier("get_capabilities")
    /\ \E i \in 1..Len(data) : data[i].risk_level >= Threshold
    /\ \E i \in 1..Len(data) :
          /\ data[i].status = "active"
          /\ data[i].required_capabilities # <<>>

\* ------------------------------------------------------------------------
\* C17
\* ------------------------------------------------------------------------

\* The sum of the values of a JSON object of numbers
RECURSIVE sum_values(_)
sum_values(object) ==
    IF DOMAIN object = {}
    THEN 0
    ELSE LET k == CHOOSE k \in DOMAIN object : TRUE
         IN  object[k]
             + sum_values([j \in DOMAIN object \ {k} |-> object[j]])

\* C17: the counters reported add up.  In get_llm_usage, total_tokens =
\* prompt_tokens + completion_tokens and the values of provider_distribution
\* sum to total_tokens; in every record of get_skill_metrics,
\* total_executions = successful_executions + failed_executions; in
\* metrics::get_llm_usage_stats, total_tokens = prompt_tokens +
\* completion_tokens; in every record of
\* metrics::get_skill_execution_metrics, execution_count = success_count +
\* failure_count.
C17_CountersAddUp ==
    /\ Returned("get_llm_usage")
          => /\ data.total_tokens
                   = data.prompt_tokens + data.completion_tokens
             /\ sum_values(data.provider_distribution) = data.total_tokens
    /\ Returned("get_skill_metrics")
          => \A i \in 1..Len(data) :
                data[i].total_executions
                   = data[i].successful_executions + data[i].failed_executions
    /\ Returned("metrics::get_llm_usage_stats")
          => ret.total_tokens = ret.prompt_tokens + ret.completion_tokens
    /\ Returned("metrics::get_skill_execution_metrics")
          => \A i \in 1..Len(ret) :
                ret[i].execution_count
                   = ret[i].success_count + ret[i].failure_count

\* get_llm_usage returned a distribution over two providers after
\* get_skill_metrics returned its records
C17_Witness ==
    /\ Returned("get_llm_usage")
    /\ Cardinality(DOMAIN data.provider_distribution) = 2
    /\ data.total_tokens > 0
    /\ Earlier("get_skill_metrics")

====
